---------------------------- MODULE Spec2Model ----------------------------
(***************************************************************************)
(* Models of the dashboard scripts of the repository.  Every script is a   *)
(* separate state machine over its own variables; a specification runs one *)
(* script and leaves the variables of the others at their initial values.  *)
(*                                                                         *)
(* Text is a sequence of one-character strings.  An optional value (a      *)
(* Python value that may be None) is a sequence of length at most one:     *)
(* None is << >> and a value v is << v >>.                                 *)
(***************************************************************************)
EXTENDS Integers, Sequences, FiniteSets, TLC

VARIABLES
    \* ---- dataresearcher.py
    dr_pc,              \* position of the script run
    locality_input,     \* the text input
    selected_fields,    \* the multiselect, in selection order
    perplexity_output, perplexity_error,
    grok_output, grok_error,
    fallback_used, final_output, final_error,
    dr_calls,           \* the vendor requests issued by this run, in order
    dr_raised,          \* an exception escaped call_*_chat
    insights,           \* parse_output_to_list's result
    rows,               \* the rows of the results table
    dr_shown,           \* the warnings and captions shown
    \* ---- videoparser.py
    vp_pc,              \* position of main()
    youtube_url,        \* the text input, with its urlparse parts
    grok_status, youtube_status, azure_status,
    has_scraper_key, has_youtube_key,   \* st.secrets
    video_id,
    video_info, transcript, transcript_method, grok_analysis, azure_insights,
    yt_attempted,       \* the transcript methods entered, in order
    re_imported,        \* the function-local name re is bound (line 215)
    yt_raised,          \* an exception left get_youtube_transcript_with_scraper
    attempt,            \* wait_for_indexing's loop counter
    status_requests,    \* status requests issued by wait_for_indexing
    failed_polls,       \* status requests that raised
    wfi_result,         \* what wait_for_indexing returned
    access_token,       \* what get_account_access_token returned
    last_poll,          \* what the latest status request reported
    vp_shown,           \* the messages main() showed
    \* ---- imageparser.py
    va_pc,              \* position of the script run
    direction,          \* the selectbox
    uploaded_image,     \* the file uploader holds an image
    XAI_API_KEY,        \* the environment holds a key
    va_model,           \* index in models_to_try of the model requested next
    va_requests,        \* the requests issued, in order, with their outcomes
    va_insights,        \* what get_vastu_insights returned
    \* ---- speectottext.py
    stt_files,          \* the temporary files that exist
    stt_created,        \* every temporary file created in the session
    stt_next,           \* the name of the next temporary file
    uploaded_file,      \* the format of the file the uploader holds, or "none"
    uploaded_audio,     \* st.session_state.uploaded_audio
    transcription,      \* st.session_state.transcription
    stt_exited,         \* the exit hook has run
    \* ---- texttospeech.py
    tts_files, tts_created, tts_next,
    audio_file_path,    \* st.session_state.audio_file_path
    original_text, enhanced_text,   \* st.session_state
    tts_exited,
    \* ---- keywordfinder.py
    kw_pc,              \* position of the script run
    url_input,
    keywords_data,      \* the keywords of the Excel file
    dfs_status,         \* status of the keywords_for_url request
    scraper_status,     \* status of the Scraper API request, 0 when not sent
    mb_keywords,        \* what fetch_keywords_for_url returned
    base_keywords,
    expansion_input,    \* what get_keyword_expansions was called with
    kw_shown,
    candidates,         \* the keywords of df_all
    kw_i,               \* position of the classification loop, 0 outside it
    kw_result,          \* what the last classify_with_grok call did
    enriched,           \* keywords of the rows of df_final
    kw_raised,          \* the exception that ended the script run, "" if none
    \* ---- mbchat.py
    messages,           \* st.session_state.messages
    user_profile,       \* st.session_state.user_profile
    first_time,         \* st.session_state.first_time
    prompt,             \* what st.chat_input returned in the last script run
    now,                \* the clock, in days since the session began
    mc_runs,            \* script runs of the session so far
    mc_options,         \* options of the shortlist multiselect the session holds
    mc_selected,        \* value of that multiselect
    mc_raised           \* the exception that ended the last script run, "" if none

drVars == <<dr_pc, locality_input, selected_fields, perplexity_output,
            perplexity_error, grok_output, grok_error, fallback_used,
            final_output, final_error, dr_calls, dr_raised, insights, rows,
            dr_shown>>

vpVars == <<vp_pc, youtube_url, grok_status, youtube_status, azure_status,
            has_scraper_key, has_youtube_key, video_id, video_info, transcript,
            transcript_method, grok_analysis, azure_insights, yt_attempted,
            re_imported, yt_raised, attempt, status_requests, failed_polls,
            wfi_result, access_token, last_poll, vp_shown>>

vaVars == <<va_pc, direction, uploaded_image, XAI_API_KEY, va_model, va_requests,
            va_insights>>

sttVars == <<stt_files, stt_created, stt_next, uploaded_file, uploaded_audio,
             transcription, stt_exited>>

ttsVars == <<tts_files, tts_created, tts_next, audio_file_path, original_text,
             enhanced_text, tts_exited>>

kwVars == <<kw_pc, url_input, keywords_data, dfs_status, scraper_status,
            mb_keywords, base_keywords, expansion_input, kw_shown,
            candidates, kw_i, kw_result, enriched, kw_raised>>

mcVars == <<messages, user_profile, first_time, prompt, now, mc_runs, mc_options,
            mc_selected, mc_raised>>

vars == <<drVars, vpVars, vaVars, sttVars, ttsVars, kwVars, mcVars>>

\* what a script leaves alone: the variables of the other scripts
drOthers == <<vpVars, vaVars, sttVars, ttsVars, kwVars, mcVars>>
vpOthers == <<drVars, vaVars, sttVars, ttsVars, kwVars, mcVars>>
vaOthers == <<drVars, vpVars, sttVars, ttsVars, kwVars, mcVars>>
sttOthers == <<drVars, vpVars, vaVars, ttsVars, kwVars, mcVars>>
ttsOthers == <<drVars, vpVars, vaVars, sttVars, kwVars, mcVars>>
kwOthers == <<drVars, vpVars, vaVars, sttVars, ttsVars, mcVars>>
mcOthers == <<drVars, vpVars, vaVars, sttVars, ttsVars, kwVars>>

---------------------------------------------------------------------------
(* Bounds *)
MaxFields == 3      \* at most this many data points are selected
MaxTranscripts == 2 \* transcripts listed for a video
MaxTempFiles == 6   \* temporary files created in one session
MaxMetas == 2       \* meta tags of a scraped page
MaxExpanded == 2    \* items of a keyword expansion answer
MaxRuns == 4        \* script runs of one chatbot session
MaxDays == 31       \* days a chatbot session lasts

---------------------------------------------------------------------------
(* Optional values and text *)
None == << >>
Some(v) == << v >>
IsNone(o) == o = << >>
Val(o) == o[1]

NL == "\n"
IsSpace(c) == c \in {" ", NL, "\t"}

RECURSIVE lstrip(_)
lstrip(s) == IF s # << >> /\ IsSpace(Head(s)) THEN lstrip(Tail(s)) ELSE s

RECURSIVE rstrip(_)
rstrip(s) ==
    IF s # << >> /\ IsSpace(s[Len(s)]) THEN rstrip(SubSeq(s, 1, Len(s) - 1)) ELSE s

strip(s) == rstrip(lstrip(s))

startswith(s, p) == Len(s) >= Len(p) /\ SubSeq(s, 1, Len(p)) = p

\* the least index at which p occurs in s, 0 when it does not occur
find(s, p) ==
    LET hits == {i \in 1..(Len(s) - Len(p) + 1) : SubSeq(s, i, i + Len(p) - 1) = p}
    IN  IF hits = {} THEN 0 ELSE CHOOSE i \in hits : \A j \in hits : i <= j

contains(s, p) == find(s, p) # 0

\* s.split(sep): the pieces of s between the occurrences of sep
RECURSIVE split(_, _)
split(s, sep) ==
    LET i == find(s, sep)
    IN  IF i = 0 THEN << s >>
        ELSE << SubSeq(s, 1, i - 1) >> \o split(SubSeq(s, i + Len(sep), Len(s)), sep)

UpperCase == <<"A","B","C","D","E","F","G","H","I","J","K","L","M",
               "N","O","P","Q","R","S","T","U","V","W","X","Y","Z">>
LowerCase == <<"a","b","c","d","e","f","g","h","i","j","k","l","m",
               "n","o","p","q","r","s","t","u","v","w","x","y","z">>
lowerChar(c) ==
    IF \E i \in 1..26 : UpperCase[i] = c
    THEN LowerCase[CHOOSE i \in 1..26 : UpperCase[i] = c]
    ELSE c
lower(s) == [i \in 1..Len(s) |-> lowerChar(s[i])]

DigitChars == <<"0","1","2","3","4","5","6","7","8","9">>
\* str(i) of a natural number
RECURSIVE str(_)
str(i) == IF i < 10 THEN << DigitChars[i + 1] >>
          ELSE str(i \div 10) \o << DigitChars[(i % 10) + 1] >>

RECURSIVE join(_, _)
join(parts, sep) ==
    IF parts = << >> THEN << >>
    ELSE IF Len(parts) = 1 THEN parts[1]
    ELSE parts[1] \o sep \o join(Tail(parts), sep)

---------------------------------------------------------------------------
(* dataresearcher.py *)

data_points == <<"Real Estate Trends", "Connectivity", "Price Trends",
                 "Nearby Infrastructure", "Rental Yield", "Demographics",
                 "Growth Potential", "Public Transport", "Safety">>

\* what st.multiselect can return: the chosen options in the order chosen
Selections ==
    LET names == {data_points[i] : i \in 1..MaxFields}
    IN  {s \in UNION {[1..n -> names] : n \in 0..MaxFields} :
            \A i, j \in 1..Len(s) : i # j => s[i] # s[j]}

Localities == {"", "Baner"}

\* The texts a vendor writes for one field.
TextNotFound == <<"N","o","t"," ","f","o","u","n","d">>
Bodies == { <<"u","p">>, <<"o","k">>, TextNotFound }
CleanBodies == { b \in Bodies : b # TextNotFound }

\* A numbered list: item k is numbered first + k - 1, items joined by sep
NumberedList(first, bodies, sep) ==
    join([k \in 1..Len(bodies) |-> str(first + k - 1) \o <<".", " ">> \o bodies[k]], sep)

\* The message contents a vendor can answer with for n fields
Contents(n) ==
    { NumberedList(first, bs, sep) :
        first \in {0, 1},
        bs \in UNION {[1..k -> Bodies] : k \in 0..n},
        sep \in { <<NL>>, <<NL, NL>> } }
    \cup { <<" ">> }

\* The outcomes of requests.post(...) followed by response.json()
ChatResponses(n) ==
    [kind : {"exception", "bad_json", "no_choices", "empty_choices", "bad_choice"},
     status : {200}, content : { << >> }]
    \cup [kind : {"status"}, status : {401, 500}, content : { << >> }]
    \cup [kind : {"ok"}, status : {200}, content : Contents(n)]

\* lines 31-41.  <<content, error, raised>>: raised tells that an exception
\* left the function instead of a pair being returned.
call_perplexity_chat_noerr(r) ==
    IF r.kind = "exception" THEN <<None, Some("Perplexity Exception"), FALSE>>
    ELSE IF r.status # 200 THEN <<None, Some("Perplexity API Error"), FALSE>>
    ELSE IF r.kind = "bad_json" THEN <<None, Some("Perplexity Exception"), FALSE>>
    ELSE IF r.kind \in {"no_choices", "empty_choices"} THEN <<None, None, FALSE>>
    ELSE IF r.kind = "bad_choice" THEN <<None, Some("Perplexity Exception"), FALSE>>
    ELSE <<Some(strip(r.content)), None, FALSE>>

call_perplexity_chat(r) ==
    \* requests.post raised: except Exception
    IF r.kind = "exception" THEN <<None, Some("Perplexity Exception"), FALSE>>
    ELSE IF r.status # 200 THEN <<None, Some("Perplexity API Error"), FALSE>>
    \* response.json() raised: except Exception
    ELSE IF r.kind = "bad_json" THEN <<None, Some("Perplexity Exception"), FALSE>>
    \* not ("choices" in result and len(result["choices"]) > 0)
    ELSE IF r.kind \in {"no_choices", "empty_choices"}
         THEN <<None, Some("Perplexity returned no usable content."), FALSE>>
    \* result["choices"][0]["message"]["content"].strip() raised: except Exception
    ELSE IF r.kind = "bad_choice" THEN <<None, Some("Perplexity Exception"), FALSE>>
    ELSE <<Some(strip(r.content)), None, FALSE>>

\* lines 66-76, as call_perplexity_chat
call_grok_chat(r) ==
    IF r.kind = "exception" THEN <<None, Some("Grok Exception"), FALSE>>
    ELSE IF r.status # 200 THEN <<None, Some("Grok API Error"), FALSE>>
    ELSE IF r.kind = "bad_json" THEN <<None, Some("Grok Exception"), FALSE>>
    ELSE IF r.kind \in {"no_choices", "empty_choices"}
         THEN <<None, Some("Grok returned no usable content."), FALSE>>
    ELSE IF r.kind = "bad_choice" THEN <<None, Some("Grok Exception"), FALSE>>
    ELSE <<Some(strip(r.content)), None, FALSE>>

\* the loop of lines 86-98: entries collected so far and the entry being built
RECURSIVE SplitEntries(_, _, _, _)
SplitEntries(lines, n, entries, current_entry) ==
    IF lines = << >> THEN
        IF current_entry # << >> THEN Append(entries, strip(current_entry)) ELSE entries
    ELSE
        LET line == strip(Head(lines)) IN
        IF line = << >> THEN SplitEntries(Tail(lines), n, entries, current_entry)
        ELSE IF \E i \in 0..(n - 1) : startswith(line, str(i) \o <<".", " ">>) THEN
            SplitEntries(Tail(lines), n,
                         IF current_entry # << >>
                         THEN Append(entries, strip(current_entry)) ELSE entries,
                         line)
        ELSE SplitEntries(Tail(lines), n, entries, current_entry \o <<" ">> \o line)

\* entry.split(". ", 1)[1] if ". " in entry else entry
CleanEntry(entry) ==
    LET i == find(entry, <<".", " ">>)
    IN  IF i # 0 THEN SubSeq(entry, i + 2, Len(entry)) ELSE entry

\* re.search(r"(not found|no data available)", s, re.IGNORECASE)
IsIncomplete(s) ==
    \/ contains(lower(s), <<"n","o","t"," ","f","o","u","n","d">>)
    \/ contains(lower(s), <<"n","o"," ","d","a","t","a"," ",
                            "a","v","a","i","l","a","b","l","e">>)

parse_output_to_list(output, fields) ==
    IF output = << >> THEN << >>
    ELSE LET entries == SplitEntries(split(output, <<NL>>), Len(fields), << >>, << >>)
             cleaned == [k \in 1..Len(entries) |-> CleanEntry(entries[k])]
         IN  SelectSeq(cleaned, LAMBDA e : ~IsIncomplete(e))

\* lines 147-150: field i beside insights[i]
BuildRows(fields, ins) ==
    [i \in 1..(IF Len(fields) < Len(ins) THEN Len(fields) ELSE Len(ins)) |->
        <<fields[i], ins[i]>>]

DrInit ==
    /\ dr_pc = "idle"
    /\ locality_input = ""
    /\ selected_fields = << >>
    /\ perplexity_output = None /\ perplexity_error = None
    /\ grok_output = None /\ grok_error = None
    /\ fallback_used = FALSE
    /\ final_output = None /\ final_error = None
    /\ dr_calls = << >>
    /\ dr_raised = FALSE
    /\ insights = << >>
    /\ rows = << >>
    /\ dr_shown = {}

\* line 121-123: the click, with the widgets' values
FetchInsights ==
    /\ dr_pc = "idle"
    /\ \E loc \in Localities, fields \in Selections :
        /\ locality_input' = loc
        /\ selected_fields' = fields
        /\ IF loc = "" \/ fields = << >>
           THEN /\ dr_pc' = "done"
                /\ dr_shown' = {"Please enter a locality and select at least one data point."}
           ELSE /\ dr_pc' = "perplexity"
                /\ dr_shown' = {}
    /\ perplexity_output' = None /\ perplexity_error' = None
    /\ grok_output' = None /\ grok_error' = None
    /\ fallback_used' = FALSE
    /\ final_output' = None /\ final_error' = None
    /\ dr_calls' = << >> /\ dr_raised' = FALSE
    /\ insights' = << >> /\ rows' = << >>
    /\ UNCHANGED drOthers

\* CallPerplexity falling back on any falsy output (if not perplexity_output)
CallPerplexity_falsy ==
    /\ dr_pc = "perplexity"
    /\ \E r \in ChatResponses(Len(selected_fields)) :
        LET res == call_perplexity_chat(r) IN
        /\ dr_calls' = Append(dr_calls, "perplexity")
        /\ perplexity_output' = res[1]
        /\ perplexity_error' = res[2]
        /\ dr_raised' = res[3]
        /\ IF res[3] THEN
                /\ dr_pc' = "done"
                /\ UNCHANGED <<fallback_used, final_output, final_error>>
           ELSE IF IsNone(res[1]) \/ Val(res[1]) = << >> THEN
                /\ fallback_used' = TRUE
                /\ dr_pc' = "grok"
                /\ UNCHANGED <<final_output, final_error>>
           ELSE /\ fallback_used' = FALSE
                /\ final_output' = res[1]
                /\ final_error' = res[2]
                /\ dr_pc' = "render"
    /\ UNCHANGED <<locality_input, selected_fields, grok_output, grok_error,
                   insights, rows, dr_shown>>
    /\ UNCHANGED drOthers

\* lines 127-137 up to the fallback decision
CallPerplexity ==
    /\ dr_pc = "perplexity"
    /\ \E r \in ChatResponses(Len(selected_fields)) :
        LET res == call_perplexity_chat(r) IN
        /\ dr_calls' = Append(dr_calls, "perplexity")
        /\ perplexity_output' = res[1]
        /\ perplexity_error' = res[2]
        /\ dr_raised' = res[3]
        /\ IF res[3] THEN
                /\ dr_pc' = "done"
                /\ UNCHANGED <<fallback_used, final_output, final_error>>
           ELSE IF IsNone(res[1]) THEN
                /\ fallback_used' = TRUE
                /\ dr_pc' = "grok"
                /\ UNCHANGED <<final_output, final_error>>
           ELSE /\ fallback_used' = FALSE
                /\ final_output' = res[1]
                /\ final_error' = res[2]
                /\ dr_pc' = "render"
    /\ UNCHANGED <<locality_input, selected_fields, grok_output, grok_error,
                   insights, rows, dr_shown>>
    /\ UNCHANGED drOthers

\* lines 131-134
CallGrok ==
    /\ dr_pc = "grok"
    /\ \E r \in ChatResponses(Len(selected_fields)) :
        LET res == call_grok_chat(r) IN
        /\ dr_calls' = Append(dr_calls, "grok")
        /\ grok_output' = res[1]
        /\ grok_error' = res[2]
        /\ dr_raised' = res[3]
        /\ IF res[3] THEN
                /\ dr_pc' = "done"
                /\ UNCHANGED <<final_output, final_error>>
           ELSE /\ final_output' = res[1]
                /\ final_error' = res[2]
                /\ dr_pc' = "render"
    /\ UNCHANGED <<locality_input, selected_fields, perplexity_output,
                   perplexity_error, fallback_used, insights, rows, dr_shown>>
    /\ UNCHANGED drOthers

\* lines 139-173
RenderResults ==
    /\ dr_pc = "render"
    /\ LET truthy == ~IsNone(final_output) /\ Val(final_output) # << >>
           ins == IF truthy THEN parse_output_to_list(Val(final_output), selected_fields)
                  ELSE << >>
           body == IF ~truthy THEN {"No valid data received from either API."}
                   ELSE IF ins = << >>
                        THEN {"No complete data available for the selected fields."}
                        ELSE {"table"}
           caption == IF ~IsNone(final_error) THEN {"Debug"}
                      ELSE IF fallback_used
                           THEN {"Perplexity failed. Fallback used: Grok"}
                           ELSE {}
       IN  /\ insights' = ins
           /\ rows' = IF truthy /\ ins # << >> THEN BuildRows(selected_fields, ins)
                      ELSE << >>
           /\ dr_shown' = body \cup caption
    /\ dr_pc' = "done"
    /\ UNCHANGED <<locality_input, selected_fields, perplexity_output,
                   perplexity_error, grok_output, grok_error, fallback_used,
                   final_output, final_error, dr_calls, dr_raised>>
    /\ UNCHANGED drOthers

\* the script run is over; its variables do not outlive it
DrRerun ==
    /\ dr_pc = "done"
    \* as at the start of a script run
    /\ dr_pc' = "idle"
    /\ locality_input' = ""
    /\ selected_fields' = << >>
    /\ perplexity_output' = None /\ perplexity_error' = None
    /\ grok_output' = None /\ grok_error' = None
    /\ fallback_used' = FALSE
    /\ final_output' = None /\ final_error' = None
    /\ dr_calls' = << >>
    /\ dr_raised' = FALSE
    /\ insights' = << >>
    /\ rows' = << >>
    /\ dr_shown' = {}
    /\ UNCHANGED drOthers

DrNext == FetchInsights \/ CallPerplexity \/ CallGrok \/ RenderResults \/ DrRerun

---------------------------------------------------------------------------
(* Claims on dataresearcher.py *)

DrRunEnded == dr_pc \in {"render", "done"} /\ dr_calls # << >> /\ ~dr_raised

\* C1: on a click with a locality and at least one field, Perplexity is called
\* first and exactly once; Grok is called, once and after it, exactly when the
\* Perplexity call returned None; the output rendered is Grok's in that case
\* and Perplexity's otherwise.
C1_PerplexityFirstGrokIffNone ==
    /\ dr_calls \in { << >>, <<"perplexity">>, <<"perplexity", "grok">> }
    /\ dr_calls # << >> => locality_input # "" /\ selected_fields # << >>
    /\ (dr_pc \in {"perplexity", "grok", "render"}) =>
            locality_input # "" /\ selected_fields # << >>
    /\ dr_pc = "perplexity" => dr_calls = << >>
    /\ dr_pc = "grok" => dr_calls = <<"perplexity">> /\ IsNone(perplexity_output)
    /\ DrRunEnded =>
        /\ (dr_calls = <<"perplexity", "grok">>) <=> IsNone(perplexity_output)
        /\ final_output = IF IsNone(perplexity_output) THEN grok_output
                          ELSE perplexity_output

C1_Witness ==
    /\ dr_pc = "done"
    /\ dr_calls = <<"perplexity", "grok">>
    /\ ~IsNone(final_output) /\ final_output = grok_output
    /\ "table" \in dr_shown

\* C2: for n selected fields and a response of n lines numbered 1. to n.,
\* none of them incomplete, parse_output_to_list returns the n texts of the
\* lines, in order, without their number prefixes.
C2_ParseReturnsEveryLine ==
    \A bs \in [1..Len(selected_fields) -> CleanBodies] :
        (/\ dr_pc = "done"
         /\ selected_fields # << >>
         /\ final_output = Some(NumberedList(1, bs, <<NL>>)))
        => insights = bs

\* C3: call_perplexity_chat and call_grok_chat never raise, and return a pair
\* (content, error) of which exactly one component is None.
C3_ChatCallsReturnOneOfContentError ==
    /\ ~dr_raised
    /\ dr_calls # << >> => (IsNone(perplexity_output) <=> ~IsNone(perplexity_error))
    /\ Len(dr_calls) = 2 => (IsNone(grok_output) <=> ~IsNone(grok_error))

C3_Witness ==
    /\ dr_calls = <<"perplexity", "grok">>
    /\ perplexity_error = Some("Perplexity returned no usable content.")
    /\ grok_error = Some("Grok Exception")
    /\ IsNone(grok_output)

\* a call's first component holds text
YieldedContent(o) == ~IsNone(o) /\ Val(o) # << >>

\* C12: whenever the warning 'No valid data received from either API' is
\* shown, both the Perplexity and the Grok API were called in that run and
\* neither yielded content.
C12_NoValidDataMeansBothCalled ==
    "No valid data received from either API." \in dr_shown =>
        /\ dr_calls = <<"perplexity", "grok">>
        /\ ~YieldedContent(perplexity_output)
        /\ ~YieldedContent(grok_output)

\* The answer rendered was written as the numbered list of bs, one entry per
\* field in the order of the fields: entry k is the one written for field k.
WrittenAs(first, bs, sep) ==
    /\ ~IsNone(final_output)
    /\ Val(final_output) = strip(NumberedList(first, bs, sep))

\* C13: every row of the results table pairs a selected field with the
\* response entry that was written for that field, also when entries were
\* dropped as incomplete: a dropped entry never makes a later entry appear
\* beside an earlier field.  (The row's text has to begin with the field's
\* entry; what the parser glues behind it is left aside here.)
C13_RowsPairFieldWithItsEntry ==
    dr_pc = "done" /\ rows # << >> =>
        \A first \in {0, 1}, sep \in { <<NL>>, <<NL, NL>> }, k \in 0..MaxFields :
            \A bs \in [1..k -> Bodies] :
                WrittenAs(first, bs, sep) =>
                    \A j \in 1..Len(rows) :
                        /\ rows[j][1] = selected_fields[j]
                        /\ j <= k
                        /\ startswith(rows[j][2], bs[j])

---------------------------------------------------------------------------
(* videoparser.py *)

\* The URLs typed, with what urlparse and parse_qs make of them
Urls ==
    { [text |-> "", hostname |-> "", path |-> "", v |-> None],
      [text |-> "https://youtu.be/abc", hostname |-> "youtu.be", path |-> "/abc", v |-> None],
      [text |-> "https://youtu.be/", hostname |-> "youtu.be", path |-> "/", v |-> None],
      [text |-> "https://www.youtube.com/watch?v=abc", hostname |-> "www.youtube.com",
       path |-> "/watch", v |-> Some("abc")],
      [text |-> "https://youtube.com/watch", hostname |-> "youtube.com",
       path |-> "/watch", v |-> None],
      [text |-> "https://vimeo.com/abc", hostname |-> "vimeo.com", path |-> "/abc", v |-> None] }

\* lines 126-137: the video id, None when there is none
extract_video_id(u) ==
    IF u.hostname = "youtu.be" THEN
        \* url_data.path[1:]
        IF u.path = "/abc" THEN Some("abc") ELSE Some("")
    ELSE IF u.hostname \in {"www.youtube.com", "youtube.com"} THEN u.v
    ELSE None

\* A method's outcome: it returned (transcript, label), it fell through to
\* the next method, or an exception left the function.
Returned(t, label) == [returned |-> TRUE, raised |-> FALSE, transcript |-> Some(t), label |-> label]
FellThrough == [returned |-> FALSE, raised |-> FALSE, transcript |-> None, label |-> ""]
Raised == [returned |-> FALSE, raised |-> TRUE, transcript |-> None, label |-> ""]

\* ' '.join(...) of the entries fetched: possibly the empty string
JoinedTexts == {"", "text"}

\* lines 178-183
Method1Outcomes == {"raise"} \cup JoinedTexts
Method1(o) == IF o = "raise" THEN FellThrough ELSE Returned(o, "Direct YouTube API")

\* lines 186-201
ListedTranscripts ==
    UNION {[1..n -> [is_translatable : BOOLEAN, known_language : BOOLEAN,
                     fetch : {"raise"} \cup JoinedTexts]] : n \in 0..MaxTranscripts}
Method2Outcomes == { <<"raise", << >> >> } \cup { <<"list", ts>> : ts \in ListedTranscripts }

RECURSIVE WalkTranscripts(_)
WalkTranscripts(ts) ==
    IF ts = << >> THEN FellThrough
    ELSE LET t == Head(ts) IN
         IF t.is_translatable THEN
            IF t.fetch = "raise" THEN WalkTranscripts(Tail(ts))
            ELSE Returned(t.fetch, "Translated from language")
         ELSE IF t.known_language THEN
            IF t.fetch = "raise" THEN WalkTranscripts(Tail(ts))
            ELSE Returned(t.fetch, "Direct language")
         ELSE WalkTranscripts(Tail(ts))

Method2(o) == IF o[1] = "raise" THEN FellThrough ELSE WalkTranscripts(o[2])

\* lines 204-257.  page: what the scraped page and the caption file hold.
Method3Outcomes ==
    [request : {"raise", "not200"}, captions : {"none"}, pattern_long : {FALSE}]
    \cup [request : {"200"},
          captions : {"none", "fetch_raises", "not200", "bad_xml", "no_parts", "parts"},
          pattern_long : BOOLEAN]

Method3_uncaught(key, o) ==
    IF ~key THEN FellThrough
    ELSE IF o.request = "raise" THEN Raised
    ELSE IF o.request = "not200" THEN FellThrough
    ELSE IF o.captions = "parts" THEN Returned("text", "ScraperAPI + Captions")
    ELSE IF o.captions = "fetch_raises" THEN Raised
    ELSE IF o.pattern_long THEN Returned("text", "ScraperAPI + Pattern Match")
    ELSE FellThrough

Method3(key, o) ==
    IF ~key THEN FellThrough
    \* requests.get raised: except Exception, st.warning
    ELSE IF o.request = "raise" THEN FellThrough
    ELSE IF o.request = "not200" THEN FellThrough
    ELSE IF o.captions = "parts" THEN Returned("text", "ScraperAPI + Captions")
    \* the caption request raised: except Exception, the patterns are skipped
    ELSE IF o.captions = "fetch_raises" THEN FellThrough
    ELSE IF o.pattern_long THEN Returned("text", "ScraperAPI + Pattern Match")
    ELSE FellThrough

\* line 215: import re runs once the page request answered 200
Method3ImportsRe(key, o) == key /\ o.request = "200"

\* lines 260-297.  One outcome per URL of urls_to_try.
TimedtextOutcomes == {"raise", "short", "xml_parts", "xml_tags_only", "xml_no_parts",
                      "raw_long", "raw_short"}
NumTimedtextUrls == 3
Method4Outcomes == [1..NumTimedtextUrls -> TimedtextOutcomes]

RECURSIVE TryTimedtext(_, _)
TryTimedtext(os, re_bound) ==
    IF os = << >> THEN FellThrough
    ELSE LET o == Head(os) IN
         IF o \in {"raise", "short"} THEN TryTimedtext(Tail(os), re_bound)
         ELSE IF o = "xml_no_parts" THEN TryTimedtext(Tail(os), re_bound)
         \* re.sub on the unbound local re raises; the handler of line 289
         \* raises again at line 291 and line 294 continues
         ELSE IF ~re_bound THEN TryTimedtext(Tail(os), re_bound)
         ELSE IF o = "xml_parts" THEN Returned("text", "ScraperAPI + Timedtext API")
         ELSE IF o = "xml_tags_only" THEN Returned("", "ScraperAPI + Timedtext API")
         ELSE IF o = "raw_long" THEN Returned("text", "ScraperAPI + Raw Text")
         ELSE TryTimedtext(Tail(os), re_bound)

Method4(key, os, re_bound) == IF ~key THEN FellThrough ELSE TryTimedtext(os, re_bound)

\* lines 300-310
Method5Outcomes == {"raise", "no_info", "no_description", "short", "long"}
Method5(key, o) ==
    IF ~key THEN FellThrough
    ELSE IF o = "long" THEN Returned("text", "Video Description (Fallback)")
    ELSE FellThrough

\* line 312
AllFailed == "All transcript methods failed"

TranscriptLabels == {"Direct YouTube API", "Translated from language", "Direct language",
                     "ScraperAPI + Captions", "ScraperAPI + Pattern Match",
                     "ScraperAPI + Timedtext API", "ScraperAPI + Raw Text",
                     "Video Description (Fallback)", AllFailed}

max_attempts == 60

VpInit ==
    /\ vp_pc = "idle"
    /\ youtube_url = [text |-> "", hostname |-> "", path |-> "", v |-> None]
    /\ grok_status = FALSE /\ youtube_status = FALSE /\ azure_status = FALSE
    /\ has_scraper_key = FALSE /\ has_youtube_key = FALSE
    /\ video_id = None
    /\ video_info = None /\ transcript = None /\ transcript_method = None
    /\ grok_analysis = None /\ azure_insights = None
    /\ yt_attempted = << >>
    /\ re_imported = FALSE
    /\ yt_raised = FALSE
    /\ attempt = 0 /\ status_requests = 0 /\ failed_polls = 0
    /\ wfi_result = None /\ access_token = None /\ last_poll = ""
    /\ vp_shown = {}

vpInputs == <<youtube_url, grok_status, youtube_status, azure_status,
              has_scraper_key, has_youtube_key, video_id>>
vpTranscript == <<transcript, transcript_method, yt_attempted, re_imported, yt_raised>>
vpWait == <<attempt, status_requests, failed_polls, wfi_result, access_token,
           last_poll>>

\* AnalyzeVideo with the video-id guard testing for None only
AnalyzeVideo_none_only ==
    /\ vp_pc = "idle"
    /\ \E u \in Urls, g \in BOOLEAN, a \in BOOLEAN, sk \in BOOLEAN, yk \in BOOLEAN :
       \E y \in (IF yk THEN BOOLEAN ELSE {FALSE}) :
        LET working_apis == (IF g THEN 1 ELSE 0) + (IF y THEN 1 ELSE 0) + (IF a THEN 1 ELSE 0)
            vid == extract_video_id(u)
        IN  /\ youtube_url' = u
            /\ grok_status' = g /\ youtube_status' = y /\ azure_status' = a
            /\ has_scraper_key' = sk /\ has_youtube_key' = yk
            /\ IF u.text = "" THEN
                    /\ vp_shown' = {"Please enter a valid YouTube URL."}
                    /\ video_id' = None /\ vp_pc' = "done"
               ELSE IF working_apis < 2 THEN
                    /\ vp_shown' = {"Need at least 2 APIs working for analysis."}
                    /\ video_id' = None /\ vp_pc' = "done"
               ELSE IF IsNone(vid) THEN
                    /\ vp_shown' = {"Invalid YouTube URL format."}
                    /\ video_id' = vid /\ vp_pc' = "done"
               ELSE /\ vp_shown' = {}
                    /\ video_id' = vid /\ vp_pc' = "info"
    /\ video_info' = None /\ transcript' = None /\ transcript_method' = None
    /\ grok_analysis' = None /\ azure_insights' = None
    /\ yt_attempted' = << >> /\ re_imported' = FALSE /\ yt_raised' = FALSE
    /\ attempt' = 0 /\ status_requests' = 0 /\ failed_polls' = 0
    /\ wfi_result' = None /\ access_token' = None /\ last_poll' = ""
    /\ UNCHANGED vpOthers

\* lines 734-785: the status checks of this run, the click and its guards
AnalyzeVideo ==
    /\ vp_pc = "idle"
    /\ \E u \in Urls, g \in BOOLEAN, a \in BOOLEAN, sk \in BOOLEAN, yk \in BOOLEAN :
       \E y \in (IF yk THEN BOOLEAN ELSE {FALSE}) :
        LET working_apis == (IF g THEN 1 ELSE 0) + (IF y THEN 1 ELSE 0) + (IF a THEN 1 ELSE 0)
            vid == extract_video_id(u)
        IN  /\ youtube_url' = u
            /\ grok_status' = g /\ youtube_status' = y /\ azure_status' = a
            /\ has_scraper_key' = sk /\ has_youtube_key' = yk
            /\ IF u.text = "" THEN
                    /\ vp_shown' = {"Please enter a valid YouTube URL."}
                    /\ video_id' = None /\ vp_pc' = "done"
               ELSE IF working_apis < 2 THEN
                    /\ vp_shown' = {"Need at least 2 APIs working for analysis."}
                    /\ video_id' = None /\ vp_pc' = "done"
               ELSE IF IsNone(vid) \/ Val(vid) = "" THEN
                    /\ vp_shown' = {"Invalid YouTube URL format."}
                    /\ video_id' = vid /\ vp_pc' = "done"
               ELSE /\ vp_shown' = {}
                    /\ video_id' = vid /\ vp_pc' = "info"
    /\ video_info' = None /\ transcript' = None /\ transcript_method' = None
    /\ grok_analysis' = None /\ azure_insights' = None
    /\ yt_attempted' = << >> /\ re_imported' = FALSE /\ yt_raised' = FALSE
    /\ attempt' = 0 /\ status_requests' = 0 /\ failed_polls' = 0
    /\ wfi_result' = None /\ access_token' = None /\ last_poll' = ""
    /\ UNCHANGED vpOthers

\* lines 804-809
FetchVideoInfo ==
    /\ vp_pc = "info"
    /\ \E info \in {None, Some("info")} :
        /\ video_info' = IF youtube_status THEN info ELSE None
        /\ vp_shown' = IF youtube_status /\ ~IsNone(info)
                       THEN vp_shown \cup {"Video"} ELSE vp_shown
    /\ vp_pc' = "m1"
    /\ UNCHANGED <<vpInputs, vpTranscript, vpWait, grok_analysis, azure_insights>>
    /\ UNCHANGED vpOthers

\* What main() does with the outcome of method k (lines 814-819, 890-892)
TranscriptStep(k, res, imports_re, next_pc) ==
    /\ yt_attempted' = Append(yt_attempted, k)
    /\ re_imported' = (re_imported \/ imports_re)
    /\ yt_raised' = res.raised
    /\ IF res.raised THEN
            /\ vp_pc' = "done"
            /\ vp_shown' = vp_shown \cup {"Analysis failed"}
            /\ UNCHANGED <<transcript, transcript_method>>
       ELSE IF res.returned THEN
            /\ transcript' = res.transcript
            /\ transcript_method' = Some(res.label)
            /\ vp_pc' = "grok"
            /\ vp_shown' = vp_shown \cup
                    (IF Val(res.transcript) # "" THEN {"Transcript obtained"}
                     ELSE {"Could not obtain transcript"})
       ELSE IF next_pc = "grok" THEN
            \* line 312
            /\ transcript' = None
            /\ transcript_method' = Some(AllFailed)
            /\ vp_pc' = "grok"
            /\ vp_shown' = vp_shown \cup {"Could not obtain transcript"}
       ELSE /\ vp_pc' = next_pc
            /\ UNCHANGED <<transcript, transcript_method, vp_shown>>
    /\ UNCHANGED <<vpInputs, vpWait, video_info, grok_analysis, azure_insights>>
    /\ UNCHANGED vpOthers

TranscriptMethod1 ==
    /\ vp_pc = "m1"
    /\ \E o \in Method1Outcomes : TranscriptStep(1, Method1(o), FALSE, "m2")

TranscriptMethod2 ==
    /\ vp_pc = "m2"
    /\ \E o \in Method2Outcomes : TranscriptStep(2, Method2(o), FALSE, "m3")

TranscriptMethod3 ==
    /\ vp_pc = "m3"
    /\ \E o \in Method3Outcomes :
        TranscriptStep(3, Method3(has_scraper_key, o),
                       Method3ImportsRe(has_scraper_key, o), "m4")

TranscriptMethod4 ==
    /\ vp_pc = "m4"
    /\ \E os \in Method4Outcomes :
        TranscriptStep(4, Method4(has_scraper_key, os, re_imported), FALSE, "m5")

TranscriptMethod5 ==
    /\ vp_pc = "m5"
    /\ \E o \in Method5Outcomes :
        TranscriptStep(5, Method5(has_youtube_key, o), FALSE, "grok")

\* lines 822-834
GrokAnalysis ==
    /\ vp_pc = "grok"
    /\ \E analysis \in {None, Some("analysis")} :
        LET run == grok_status /\ ~IsNone(transcript) /\ Val(transcript) # ""
        IN  /\ grok_analysis' = IF run THEN analysis ELSE None
            /\ vp_shown' = IF run /\ ~IsNone(analysis)
                           THEN vp_shown \cup {"AI analysis complete"} ELSE vp_shown
    /\ vp_pc' = IF azure_status THEN "download" ELSE "display"
    /\ UNCHANGED <<vpInputs, vpTranscript, vpWait, video_info, azure_insights>>
    /\ UNCHANGED vpOthers

\* lines 838-847, 860-863
DownloadAndUpload ==
    /\ vp_pc = "download"
    /\ \E o \in {"download_failed", "upload_failed", "uploaded"} :
        /\ vp_pc' = IF o = "uploaded" THEN "token" ELSE "display"
        /\ vp_shown' = vp_shown \cup
                (IF o = "download_failed" THEN {"Video download failed"}
                 ELSE IF o = "upload_failed" THEN {"Video upload to Azure failed"}
                 ELSE {})
    /\ UNCHANGED <<vpInputs, vpTranscript, vpWait, video_info, grok_analysis,
                   azure_insights>>
    /\ UNCHANGED vpOthers

\* What main() does once wait_for_indexing returned (lines 851-859)
AfterWait(result) ==
    /\ vp_pc' = IF result THEN "insights" ELSE "display"
    /\ vp_shown' = IF result THEN vp_shown
                   ELSE vp_shown \cup {"Azure video processing failed"}

\* lines 536-546
GetAccessToken ==
    /\ vp_pc = "token"
    /\ \E token \in {None, Some("token")} :
        /\ access_token' = token
        /\ IF IsNone(token) THEN
                /\ wfi_result' = Some(FALSE)
                /\ AfterWait(FALSE)
           ELSE /\ wfi_result' = None
                /\ vp_pc' = "poll"
                /\ UNCHANGED vp_shown
    /\ attempt' = 0
    /\ UNCHANGED <<status_requests, failed_polls, last_poll>>
    /\ UNCHANGED <<vpInputs, vpTranscript, video_info, grok_analysis, azure_insights>>
    /\ UNCHANGED vpOthers

PollOutcomes == {"raise", "Processed", "Failed", "Processing"}

\* PollStatus retrying a status request that raised
PollStatus_retry ==
    /\ vp_pc = "poll"
    /\ attempt < max_attempts
    /\ \E o \in PollOutcomes :
        /\ status_requests' = status_requests + 1
        /\ failed_polls' = failed_polls + (IF o = "raise" THEN 1 ELSE 0)
        /\ last_poll' = o
        /\ IF o = "raise" THEN
                /\ UNCHANGED <<attempt, wfi_result, vp_pc, vp_shown>>
           ELSE IF o = "Processed" THEN
                /\ wfi_result' = Some(TRUE)
                /\ UNCHANGED attempt
                /\ AfterWait(TRUE)
           ELSE IF o = "Failed" THEN
                /\ wfi_result' = Some(FALSE)
                /\ UNCHANGED attempt
                /\ AfterWait(FALSE)
           ELSE \* time.sleep(10); attempt += 1; then the loop test
                /\ attempt' = attempt + 1
                /\ IF attempt + 1 < max_attempts THEN
                        /\ UNCHANGED <<wfi_result, vp_pc, vp_shown>>
                   ELSE \* lines 572-573
                        /\ wfi_result' = Some(FALSE)
                        /\ AfterWait(FALSE)
    /\ UNCHANGED <<access_token, vpInputs, vpTranscript, video_info, grok_analysis,
                   azure_insights>>
    /\ UNCHANGED vpOthers

\* PollStatus taking the state Failed for the end of a successful indexing
PollStatus_failed_true ==
    /\ vp_pc = "poll"
    /\ attempt < max_attempts
    /\ \E o \in PollOutcomes :
        /\ status_requests' = status_requests + 1
        /\ failed_polls' = failed_polls + (IF o = "raise" THEN 1 ELSE 0)
        /\ last_poll' = o
        /\ IF o = "raise" THEN
                \* except Exception: return False
                /\ wfi_result' = Some(FALSE)
                /\ UNCHANGED attempt
                /\ AfterWait(FALSE)
           ELSE IF o = "Processed" THEN
                /\ wfi_result' = Some(TRUE)
                /\ UNCHANGED attempt
                /\ AfterWait(TRUE)
           ELSE IF o = "Failed" THEN
                /\ wfi_result' = Some(TRUE)
                /\ UNCHANGED attempt
                /\ AfterWait(TRUE)
           ELSE \* time.sleep(10); attempt += 1; then the loop test
                /\ attempt' = attempt + 1
                /\ IF attempt + 1 < max_attempts THEN
                        /\ UNCHANGED <<wfi_result, vp_pc, vp_shown>>
                   ELSE \* lines 572-573
                        /\ wfi_result' = Some(FALSE)
                        /\ AfterWait(FALSE)
    /\ UNCHANGED <<access_token, vpInputs, vpTranscript, video_info, grok_analysis,
                   azure_insights>>
    /\ UNCHANGED vpOthers

\* lines 548-573: one iteration of the loop, with the loop test that follows it
PollStatus ==
    /\ vp_pc = "poll"
    /\ attempt < max_attempts
    /\ \E o \in PollOutcomes :
        /\ status_requests' = status_requests + 1
        /\ failed_polls' = failed_polls + (IF o = "raise" THEN 1 ELSE 0)
        /\ last_poll' = o
        /\ IF o = "raise" THEN
                \* except Exception: return False
                /\ wfi_result' = Some(FALSE)
                /\ UNCHANGED attempt
                /\ AfterWait(FALSE)
           ELSE IF o = "Processed" THEN
                /\ wfi_result' = Some(TRUE)
                /\ UNCHANGED attempt
                /\ AfterWait(TRUE)
           ELSE IF o = "Failed" THEN
                /\ wfi_result' = Some(FALSE)
                /\ UNCHANGED attempt
                /\ AfterWait(FALSE)
           ELSE \* time.sleep(10); attempt += 1; then the loop test
                /\ attempt' = attempt + 1
                /\ IF attempt + 1 < max_attempts THEN
                        /\ UNCHANGED <<wfi_result, vp_pc, vp_shown>>
                   ELSE \* lines 572-573
                        /\ wfi_result' = Some(FALSE)
                        /\ AfterWait(FALSE)
    /\ UNCHANGED <<access_token, vpInputs, vpTranscript, video_info, grok_analysis,
                   azure_insights>>
    /\ UNCHANGED vpOthers

\* lines 852-857
GetInsights ==
    /\ vp_pc = "insights"
    /\ \E ins \in {None, Some("insights")} :
        /\ azure_insights' = ins
        /\ vp_shown' = vp_shown \cup (IF IsNone(ins) THEN {"Azure insights retrieval failed"}
                                      ELSE {"Azure analysis complete"})
    /\ vp_pc' = "display"
    /\ UNCHANGED <<vpInputs, vpTranscript, vpWait, video_info, grok_analysis>>
    /\ UNCHANGED vpOthers

\* lines 866-888
DisplayResults ==
    /\ vp_pc = "display"
    /\ LET Truthy(o) == IF IsNone(o) \/ Val(o) = "" THEN 0 ELSE 1
           success_count == Truthy(video_info) + Truthy(transcript)
                            + Truthy(grok_analysis) + Truthy(azure_insights)
       IN  vp_shown' = vp_shown \cup (IF success_count >= 2 THEN {"Analysis complete"}
                                      ELSE {"Partial analysis complete"})
    /\ vp_pc' = "done"
    /\ UNCHANGED <<vpInputs, vpTranscript, vpWait, video_info, grok_analysis,
                   azure_insights>>
    /\ UNCHANGED vpOthers

\* main() returned; its locals do not outlive it
VpRerun ==
    /\ vp_pc = "done"
    \* as at the start of a script run
    /\ vp_pc' = "idle"
    /\ youtube_url' = [text |-> "", hostname |-> "", path |-> "", v |-> None]
    /\ grok_status' = FALSE /\ youtube_status' = FALSE /\ azure_status' = FALSE
    /\ has_scraper_key' = FALSE /\ has_youtube_key' = FALSE
    /\ video_id' = None
    /\ video_info' = None /\ transcript' = None /\ transcript_method' = None
    /\ grok_analysis' = None /\ azure_insights' = None
    /\ yt_attempted' = << >>
    /\ re_imported' = FALSE
    /\ yt_raised' = FALSE
    /\ attempt' = 0 /\ status_requests' = 0 /\ failed_polls' = 0
    /\ wfi_result' = None /\ access_token' = None /\ last_poll' = ""
    /\ vp_shown' = {}
    /\ UNCHANGED vpOthers

VpNext ==
    \/ AnalyzeVideo \/ FetchVideoInfo
    \/ TranscriptMethod1 \/ TranscriptMethod2 \/ TranscriptMethod3
    \/ TranscriptMethod4 \/ TranscriptMethod5
    \/ GrokAnalysis \/ DownloadAndUpload \/ GetAccessToken \/ PollStatus
    \/ GetInsights \/ DisplayResults \/ VpRerun

---------------------------------------------------------------------------
(* Claims on videoparser.py *)

TranscriptReturned == ~IsNone(transcript_method)

\* C4: get_youtube_transcript_with_scraper tries its five methods in the
\* fixed order 1..5, a method only after every earlier one failed; it never
\* raises; the transcript it returns is None exactly when the label is
\* 'All transcript methods failed'.
C4_TranscriptMethodsInOrder ==
    /\ ~yt_raised
    /\ Len(yt_attempted) <= 5
    /\ \A i \in 1..Len(yt_attempted) : yt_attempted[i] = i
    /\ \A k \in 1..5 :
        vp_pc = <<"m1", "m2", "m3", "m4", "m5">>[k] =>
            Len(yt_attempted) = k - 1 /\ ~TranscriptReturned /\ IsNone(transcript)
    /\ TranscriptReturned =>
        /\ yt_attempted # << >>
        /\ Val(transcript_method) \in TranscriptLabels
        /\ IsNone(transcript) <=> Val(transcript_method) = AllFailed
        /\ Val(transcript_method) = AllFailed => Len(yt_attempted) = 5
    /\ vp_pc \in {"grok", "download", "token", "poll", "insights", "display"}
            => TranscriptReturned

C4_Witness ==
    /\ vp_pc = "done"
    /\ yt_attempted = <<1, 2, 3, 4, 5>>
    /\ transcript_method = Some(AllFailed)
    /\ IsNone(transcript)
    /\ has_scraper_key /\ has_youtube_key

WaitReturned == ~IsNone(wfi_result)

\* C6: wait_for_indexing returns True only if a status poll reported
\* 'Processed'; it returns False when a poll reports 'Failed', when a poll
\* raises, when there is no access token, and when 60 polls completed
\* without 'Processed'.
C6_WaitResult ==
    /\ wfi_result = Some(TRUE) => last_poll = "Processed" /\ ~IsNone(access_token)
    /\ last_poll \in {"Processed", "Failed", "raise"} => WaitReturned
    /\ last_poll \in {"Failed", "raise"} => wfi_result = Some(FALSE)
    /\ last_poll = "Processed" => wfi_result = Some(TRUE)
    /\ (vp_pc \notin {"idle", "info", "m1", "m2", "m3", "m4", "m5", "grok",
                      "download", "token"} /\ IsNone(access_token) /\ WaitReturned)
            => wfi_result = Some(FALSE) /\ status_requests = 0
    /\ (status_requests = max_attempts /\ last_poll = "Processing")
            => wfi_result = Some(FALSE)
    /\ vp_pc = "insights" => wfi_result = Some(TRUE)

C6_Witness ==
    /\ wfi_result = Some(TRUE)
    /\ last_poll = "Processed"
    /\ status_requests = 3
    /\ vp_pc = "insights"

\* C7: wait_for_indexing issues at most 60 status requests and then has
\* returned; a status request that fails is never retried, the first failing
\* poll ends the wait.
C7_WaitBounded ==
    /\ status_requests <= max_attempts
    /\ attempt <= max_attempts
    /\ vp_pc = "poll" =>
            /\ ~WaitReturned
            /\ attempt < max_attempts
            /\ status_requests = attempt
            /\ failed_polls = 0
    /\ failed_polls <= 1
    /\ failed_polls = 1 => wfi_result = Some(FALSE) /\ last_poll = "raise"
    /\ status_requests = max_attempts => WaitReturned

C7_Witness ==
    /\ status_requests = max_attempts
    /\ last_poll = "Processing"
    /\ wfi_result = Some(FALSE)
    /\ "Azure video processing failed" \in vp_shown

\* Some step of the analysis was started or has left a result
VpStepTaken ==
    \/ vp_pc \notin {"idle", "done"}
    \/ ~IsNone(video_info) \/ yt_attempted # << >> \/ ~IsNone(transcript_method)
    \/ ~IsNone(grok_analysis) \/ ~IsNone(access_token) \/ status_requests > 0
    \/ ~IsNone(azure_insights)

working_apis ==
    (IF grok_status THEN 1 ELSE 0) + (IF youtube_status THEN 1 ELSE 0)
        + (IF azure_status THEN 1 ELSE 0)

\* C11: a click on 'Analyze Video' performs no metadata, transcript,
\* Grok-analysis or Azure step unless the URL is non-empty, at least two of
\* the three status checks (Grok, YouTube, Azure) succeeded and a video id
\* could be extracted from the URL.
C11_NoStepWithoutUrlApisAndId ==
    VpStepTaken =>
        /\ youtube_url.text # ""
        /\ working_apis >= 2
        /\ ~IsNone(video_id) /\ Val(video_id) # ""
        /\ video_id = extract_video_id(youtube_url)

\* the Azure step was reached with exactly two working APIs
C11_Witness ==
    /\ vp_pc = "done"
    /\ status_requests > 0
    /\ yt_attempted # << >>
    /\ working_apis = 2
    /\ video_id = Some("abc")
    /\ youtube_url.hostname = "youtu.be"

---------------------------------------------------------------------------
(* imageparser.py *)

Directions == {"North", "East", "South", "West", "Northeast", "Northwest",
               "Southeast", "Southwest"}

\* line 120
models_to_try == <<"grok-3", "grok-beta", "grok-2">>

\* What one requests.post and the lines after it can meet: an answer with a
\* status code (200 with or without the expected body), or an exception,
\* raised by requests (a RequestException) or not, whose text may contain
\* the characters 404.
VastuOutcomes ==
    [kind : {"status"}, status : {404, 401, 403, 429, 500}, text404 : {FALSE}]
    \cup [kind : {"ok", "bad_body"}, status : {200}, text404 : {FALSE}]
    \cup [kind : {"request_exception", "other_exception"}, status : {0}, text404 : BOOLEAN]

\* lines 132-158 for one model: "continue", or the value returned
VastuStep(o) ==
    IF o.kind = "status" /\ o.status = 404 THEN "continue"
    ELSE IF o.kind = "status" /\ o.status = 401 THEN "Error: Invalid API key."
    ELSE IF o.kind = "status" /\ o.status = 403 THEN "Error: Access forbidden."
    ELSE IF o.kind = "status" /\ o.status = 429 THEN "Error: Rate limit exceeded."
    \* response.raise_for_status() raises an HTTPError, a RequestException
    ELSE IF o.kind = "status" THEN "Error with model"
    ELSE IF o.kind = "request_exception" THEN
        IF o.text404 THEN "continue" ELSE "Error with model"
    ELSE IF o.kind \in {"other_exception", "bad_body"} THEN "Unexpected error with model"
    ELSE "content"

VaInit ==
    /\ va_pc = "idle"
    /\ direction = "North"
    /\ uploaded_image = FALSE
    /\ XAI_API_KEY = FALSE
    /\ va_model = 1
    /\ va_requests = << >>
    /\ va_insights = None

\* lines 205-233 and 74-75: either button, then the start of get_vastu_insights
GetVastuAnalysis ==
    /\ va_pc = "idle"
    /\ \E d \in Directions, img \in BOOLEAN, encoded \in BOOLEAN, key \in BOOLEAN :
        /\ direction' = d
        /\ uploaded_image' = img
        /\ XAI_API_KEY' = key
        /\ IF img /\ ~encoded THEN
                \* encode_image_to_base64 returned None
                /\ va_pc' = "done" /\ va_insights' = None
           ELSE IF ~key THEN
                /\ va_pc' = "done"
                /\ va_insights' = Some("Error: XAI_API_KEY not found.")
           ELSE /\ va_pc' = "request" /\ va_insights' = None
    /\ va_model' = 1
    /\ va_requests' = << >>
    /\ UNCHANGED vaOthers

\* lines 122-161: one turn of the loop over models_to_try
VastuRequest ==
    /\ va_pc = "request"
    /\ \E o \in VastuOutcomes :
        LET step == VastuStep(o) IN
        /\ va_requests' = Append(va_requests, [model |-> models_to_try[va_model], outcome |-> o])
        /\ IF step # "continue" THEN
                /\ va_insights' = Some(step) /\ va_pc' = "done"
                /\ UNCHANGED va_model
           ELSE IF va_model < Len(models_to_try) THEN
                /\ va_model' = va_model + 1
                /\ UNCHANGED <<va_insights, va_pc>>
           ELSE /\ va_insights' = Some("Error: All Grok models failed.")
                /\ va_pc' = "done"
                /\ UNCHANGED va_model
    /\ UNCHANGED <<direction, uploaded_image, XAI_API_KEY>>
    /\ UNCHANGED vaOthers

\* the script run is over
VaRerun ==
    /\ va_pc = "done"
    /\ va_pc' = "idle"
    /\ direction' = "North"
    /\ uploaded_image' = FALSE
    /\ XAI_API_KEY' = FALSE
    /\ va_model' = 1
    /\ va_requests' = << >>
    /\ va_insights' = None
    /\ UNCHANGED vaOthers

VaNext == GetVastuAnalysis \/ VastuRequest \/ VaRerun

---------------------------------------------------------------------------
(* speectottext.py *)

SttInit ==
    /\ stt_files = {}
    /\ stt_created = {}
    /\ stt_next = 1
    /\ uploaded_file = "none"
    /\ uploaded_audio = None
    /\ transcription = ""
    /\ stt_exited = FALSE

\* lines 316-318: the formats the uploader takes
UploadFormats == {"wav", "mp3"}

\* What process_uploaded_audio can meet with a file of a format: mp3 is
\* offered only with pydub, and is then converted (line 142).
ProcessOutcomes(ext) ==
    IF ext = "mp3" THEN {"write_fails", "load_fails", "export_fails", "converted"}
    ELSE {"write_fails", "kept"}

\* lines 131-169.  <<value returned, files created, files left on disk>>,
\* the files being named from n on.
process_uploaded_audio(o, n) ==
    \* temp_input.write raised: except Exception, return None
    IF o = "write_fails" THEN <<None, {n}, {n}>>
    \* no conversion
    ELSE IF o = "kept" THEN <<Some(n), {n}, {n}>>
    \* AudioSegment.from_* raised
    ELSE IF o = "load_fails" THEN <<Some(n), {n}, {n}>>
    \* audio.export raised, after temp_wav was created
    ELSE IF o = "export_fails" THEN <<Some(n), {n, n + 1}, {n, n + 1}>>
    \* os.unlink(temp_input_path); return wav_path
    ELSE <<Some(n + 1), {n, n + 1}, {n + 1}>>

\* lines 327-331, which every run of the script executes: the file the
\* uploader holds is processed, again on every rerun
ProcessUpload(ext) ==
    IF ext = "none" THEN UNCHANGED <<stt_created, stt_files, stt_next, uploaded_audio>>
    ELSE \E o \in ProcessOutcomes(ext) :
        LET res == process_uploaded_audio(o, stt_next) IN
        /\ stt_created' = stt_created \cup res[2]
        /\ stt_files' = stt_files \cup res[3]
        /\ stt_next' = stt_next + Cardinality(res[2])
        /\ uploaded_audio' = IF IsNone(res[1]) THEN uploaded_audio ELSE res[1]

\* a file is put in the uploader; the script reruns
SttUpload ==
    /\ ~stt_exited
    /\ stt_next + 1 <= MaxTempFiles
    /\ \E ext \in UploadFormats :
        /\ uploaded_file' = ext
        /\ ProcessUpload(ext)
    /\ UNCHANGED <<transcription, stt_exited>>
    /\ UNCHANGED sttOthers

\* the file is taken out of the uploader; the script reruns
SttRemoveUpload ==
    /\ ~stt_exited
    /\ uploaded_file # "none"
    /\ uploaded_file' = "none"
    /\ ProcessUpload("none")
    /\ UNCHANGED <<transcription, stt_exited>>
    /\ UNCHANGED sttOthers

\* lines 379-430: the button, enabled once an audio file was processed; the
\* click reruns the script
StartTranscription ==
    /\ ~stt_exited
    /\ stt_next + 1 <= MaxTempFiles
    /\ ~IsNone(uploaded_audio)
    /\ ProcessUpload(uploaded_file)
    /\ \E t \in {"text", "Error"} : transcription' = t
    /\ UNCHANGED <<uploaded_file, stt_exited>>
    /\ UNCHANGED sttOthers

\* lines 1086-1094: the atexit hook
cleanup_temp_files ==
    /\ ~stt_exited
    /\ stt_exited' = TRUE
    /\ stt_files' = IF ~IsNone(uploaded_audio) /\ Val(uploaded_audio) \in stt_files
                    THEN stt_files \ {Val(uploaded_audio)} ELSE stt_files
    /\ UNCHANGED <<stt_created, stt_next, uploaded_file, uploaded_audio, transcription>>
    /\ UNCHANGED sttOthers

SttNext == SttUpload \/ SttRemoveUpload \/ StartTranscription \/ cleanup_temp_files

---------------------------------------------------------------------------
(* texttospeech.py *)

TtsInit ==
    /\ tts_files = {}
    /\ tts_created = {}
    /\ tts_next = 1
    /\ audio_file_path = None
    /\ original_text = ""
    /\ enhanced_text = ""
    /\ tts_exited = FALSE

\* lines 254-285.  <<value returned, files created>>, the files being named
\* from n on; a file created stays on disk.
GttsOutcomes == {"ok", "init_fails_then_ok", "init_fails_twice", "save_fails_then_ok",
                 "save_fails_twice", "save_fails_then_init_fails"}
generate_speech_gtts_enhanced(o, n) ==
    IF o = "ok" THEN <<Some(n), {n}>>
    \* gTTS(...) raised before the temporary file; the fallback runs
    ELSE IF o = "init_fails_then_ok" THEN <<Some(n), {n}>>
    ELSE IF o = "init_fails_twice" THEN <<None, {}>>
    \* tts.save raised after the temporary file was created
    ELSE IF o = "save_fails_then_ok" THEN <<Some(n + 1), {n, n + 1}>>
    ELSE IF o = "save_fails_twice" THEN <<None, {n, n + 1}>>
    ELSE <<None, {n}>>

\* lines 287-333
Pyttsx3Outcomes == {"ok", "init_fails", "save_fails"}
generate_speech_pyttsx3_enhanced(o, n) ==
    IF o = "ok" THEN <<Some(n), {n}>>
    ELSE IF o = "init_fails" THEN <<None, {}>>
    ELSE <<None, {n}>>

\* lines 455-518: the Generate button.  engine: the one lines 495-502 pick.
GenerateSpeech ==
    /\ ~tts_exited
    /\ tts_next + 1 <= MaxTempFiles
    /\ \E engine \in {"gtts", "pyttsx3", "none"}, g \in GttsOutcomes,
          p \in Pyttsx3Outcomes, use_chatgpt \in BOOLEAN :
        LET res == IF engine = "gtts" THEN generate_speech_gtts_enhanced(g, tts_next)
                   ELSE IF engine = "pyttsx3"
                        THEN generate_speech_pyttsx3_enhanced(p, tts_next)
                        ELSE <<None, {}>>
        IN  /\ tts_created' = tts_created \cup res[2]
            /\ tts_files' = tts_files \cup res[2]
            /\ tts_next' = tts_next + Cardinality(res[2])
            /\ audio_file_path' = IF IsNone(res[1]) THEN audio_file_path ELSE res[1]
            /\ original_text' = "text"
            /\ enhanced_text' = IF use_chatgpt THEN "enhanced" ELSE ""
    /\ UNCHANGED tts_exited
    /\ UNCHANGED ttsOthers

\* lines 528-532 and, on the rerun, lines 66-71
ClearAll ==
    /\ ~tts_exited
    /\ audio_file_path' = None
    /\ original_text' = ""
    /\ enhanced_text' = ""
    /\ UNCHANGED <<tts_files, tts_created, tts_next, tts_exited>>
    /\ UNCHANGED ttsOthers

\* lines 723-731: the atexit hook
tts_cleanup_temp_files ==
    /\ ~tts_exited
    /\ tts_exited' = TRUE
    /\ tts_files' = IF ~IsNone(audio_file_path) /\ Val(audio_file_path) \in tts_files
                    THEN tts_files \ {Val(audio_file_path)} ELSE tts_files
    /\ UNCHANGED <<tts_created, tts_next, audio_file_path, original_text, enhanced_text>>
    /\ UNCHANGED ttsOthers

TtsNext == GenerateSpeech \/ ClearAll \/ tts_cleanup_temp_files

---------------------------------------------------------------------------
(* keywordfinder.py *)

KwUrls == {"", "https://www.magicbricks.com/flats"}

TextFlat == <<"f","l","a","t">>
TextVilla == <<"v","i","l","l","a">>

\* the items of a keywords_for_url answer
DfsItems ==
    UNION {[1..n -> [keyword : {TextFlat, TextVilla}, search_volume : {0, 500}]] : n \in 0..2}

\* the meta tags of the scraped page: the name attribute ("" when absent)
\* and the content attribute
MetaNames == { <<"k","e","y","w","o","r","d","s">>, <<"K","e","y","w","o","r","d","s">>, <<"d","e","s","c","r","i","p","t","i","o","n">>, << >> }
MetaContents == { << >>, <<"f","l","a","t">>, <<"f","l","a","t",","," ","v","i","l","l","a">> }
Pages == UNION {[1..n -> [name : MetaNames, content : MetaContents]] : n \in 0..MaxMetas}

\* lines 59-62: keywords.extend(content.split(",")) for every keywords meta
RECURSIVE CollectKeywords(_)
CollectKeywords(metas) ==
    IF metas = << >> THEN << >>
    ELSE LET meta == Head(metas) IN
         (IF contains(lower(meta.name), <<"k","e","y","w","o","r","d","s">>)
          THEN split(meta.content, <<",">>) ELSE << >>)
         \o CollectKeywords(Tail(metas))

\* line 63
ScrapedKeywords(page) ==
    LET kws == SelectSeq(CollectKeywords(page), LAMBDA kw : strip(kw) # << >>)
    IN  [i \in 1..Len(kws) |-> [keyword |-> strip(kws[i]), search_volume |-> 0]]

\* line 118
BaseKeywordsOf(items) ==
    {items[i].keyword : i \in {j \in 1..Len(items) : items[j].search_volume > 0}}

KwInit ==
    /\ kw_pc = "idle"
    /\ url_input = ""
    /\ keywords_data = {}
    /\ dfs_status = 0
    /\ scraper_status = 0
    /\ mb_keywords = << >>
    /\ base_keywords = {}
    /\ expansion_input = None
    /\ kw_shown = {}
    /\ candidates = << >>
    /\ kw_i = 0
    /\ kw_result = None
    /\ enriched = << >>
    /\ kw_raised = ""

kwLoop == <<candidates, kw_i, kw_result, enriched, kw_raised>>

\* lines 111-123: the click, the widgets' values and the Excel keywords
DiscoverTopics ==
    /\ kw_pc = "idle"
    /\ \E url \in KwUrls, excel \in SUBSET {TextFlat, TextVilla} :
        /\ url_input' = url
        /\ keywords_data' = excel
        /\ IF url # "" THEN
                /\ kw_pc' = "dataforseo"
                /\ base_keywords' = {} /\ kw_shown' = {}
           ELSE IF excel # {} THEN
                /\ kw_pc' = "base"
                /\ base_keywords' = excel /\ kw_shown' = {}
           ELSE /\ kw_pc' = "done"
                /\ base_keywords' = {}
                /\ kw_shown' = {"No valid keywords found. Please provide a URL."}
    /\ dfs_status' = 0 /\ scraper_status' = 0
    /\ mb_keywords' = << >>
    /\ expansion_input' = None
    /\ UNCHANGED kwLoop
    /\ UNCHANGED kwOthers

\* lines 33-49, 68-69: the DataForSEO request of fetch_keywords_for_url and,
\* unless the fallback is taken, line 118
DataForSEORequest ==
    /\ kw_pc = "dataforseo"
    /\ \E status \in {200, 404, 500}, parsed \in BOOLEAN, items \in DfsItems :
        /\ dfs_status' = status
        /\ IF status = 404 THEN
                /\ kw_pc' = "scraper"
                /\ UNCHANGED <<mb_keywords, base_keywords>>
           ELSE LET ret == IF status = 200 /\ parsed THEN items ELSE << >> IN
                /\ mb_keywords' = ret
                /\ base_keywords' = BaseKeywordsOf(ret)
                /\ kw_pc' = "base"
        /\ kw_shown' = IF status = 404 THEN {"DataForSEO failed with 404. Trying Scraper API..."}
                       ELSE IF status = 200 THEN
                            (IF parsed THEN {} ELSE {"Error parsing DataForSEO response."})
                       ELSE {"Failed to fetch keywords from Magicbricks URL"}
    /\ UNCHANGED <<url_input, keywords_data, scraper_status, expansion_input>>
    /\ UNCHANGED kwLoop
    /\ UNCHANGED kwOthers

\* lines 50-66, then line 118
ScraperRequest ==
    /\ kw_pc = "scraper"
    /\ \E status \in {200, 500}, page \in Pages :
        LET ret == IF status = 200 THEN ScrapedKeywords(page) ELSE << >> IN
        /\ scraper_status' = status
        /\ mb_keywords' = ret
        /\ base_keywords' = BaseKeywordsOf(ret)
        /\ kw_shown' = IF status = 200 THEN kw_shown ELSE kw_shown \cup {"Scraper API failed"}
    /\ kw_pc' = "base"
    /\ UNCHANGED <<url_input, keywords_data, dfs_status, expansion_input>>
    /\ UNCHANGED kwLoop
    /\ UNCHANGED kwOthers

\* the items of a keywords_for_keywords answer
TextLogin == <<"l","o","g","i","n">>
ExpansionItems ==
    UNION {[1..n -> [keyword : {TextFlat, TextVilla, TextLogin}, search_volume : {50, 500}]]
            : n \in 0..MaxExpanded}

\* What the request of get_keyword_expansions and response.json() do
ExpansionOutcomes ==
    [kind : {"ok"}, items : ExpansionItems]
    \cup [kind : {"status", "bad_body", "no_result"}, items : { << >> }]

\* line 132
Candidates(expanded) ==
    SelectSeq(expanded, LAMBDA k :
        /\ k.search_volume > 100
        /\ ~contains(lower(k.keyword), <<"m","a","g","i","c","b","r","i","c","k","s">>)
        /\ ~contains(lower(k.keyword), TextLogin))

\* line 143: Series.head(50)
HeadCount == 50
head(seq, n) == SubSeq(seq, 1, IF Len(seq) < n THEN Len(seq) ELSE n)

\* lines 125-139: st.stop() without base keywords, else the expansion, the
\* candidates and the first table
ExpandKeywords ==
    /\ kw_pc = "base"
    /\ IF base_keywords = {} THEN
            /\ kw_shown' = kw_shown \cup {"No valid keywords found for this URL or Excel data."}
            /\ kw_pc' = "done"
            /\ UNCHANGED <<expansion_input, kwLoop>>
       ELSE \E o \in ExpansionOutcomes :
            LET cands == Candidates(o.items) IN
            /\ expansion_input' = Some(base_keywords)
            /\ kw_result' = None /\ enriched' = << >>
            /\ IF o.kind = "bad_body" THEN
                    \* response.json() raises inside get_keyword_expansions,
                    \* which catches KeyError and IndexError only
                    /\ kw_raised' = "JSONDecodeError" /\ kw_pc' = "done"
                    /\ UNCHANGED <<candidates, kw_i, kw_shown>>
               ELSE IF cands = << >> THEN
                    \* pd.DataFrame([]) has no column "keyword"
                    /\ kw_raised' = "KeyError" /\ kw_pc' = "done"
                    /\ UNCHANGED <<candidates, kw_i, kw_shown>>
               ELSE /\ candidates' = head([i \in 1..Len(cands) |-> cands[i].keyword], HeadCount)
                    /\ kw_i' = 1
                    /\ kw_shown' = kw_shown \cup {"Keyword Ideas Based on Input"}
                    /\ kw_pc' = "classify"
                    /\ UNCHANGED kw_raised
    /\ UNCHANGED <<url_input, keywords_data, dfs_status, scraper_status, mb_keywords,
                   base_keywords>>
    /\ UNCHANGED kwOthers

\* The keys classify_with_grok asks the model to answer with
ResultKeys == {"article_worthy", "title", "intent", "related_topics"}

TextYes == <<"Y","e","s">>
TextNo == <<"N","o">>

\* What json.loads can return for a text that is valid JSON: an object with
\* some keys, or another JSON value (a string, a list)
JsonValues ==
    [type : {"dict"}, keys : SUBSET ResultKeys,
     article_worthy : {TextYes, lower(TextYes), TextNo}]
    \cup [type : {"str", "list"}, keys : { {} }, article_worthy : { << >> }]

\* lines 105, 107, 108
DefaultResult == [type |-> "dict", keys |-> ResultKeys, article_worthy |-> TextNo]

\* The outcomes of requests.post(...), response.json() and
\* data["choices"][0]["text"]; body_error is the class of the exception
\* response.json() raises for a body that is not JSON (it derives from
\* json.JSONDecodeError or from simplejson's, depending on the installation)
ClassifyResponses ==
    [kind : {"exception", "no_choices", "empty_choices", "choice_without_text",
             "invalid_text"},
     status : {200}, body_error : {""}, value : {DefaultResult}]
    \cup [kind : {"status"}, status : {401, 500}, body_error : {""}, value : {DefaultResult}]
    \cup [kind : {"bad_body"}, status : {200},
          body_error : {"json.JSONDecodeError", "simplejson.JSONDecodeError"},
          value : {DefaultResult}]
    \cup [kind : {"valid_text"}, status : {200}, body_error : {""}, value : JsonValues]

ClassifyReturned(v) == [raised |-> "", value |-> v]
ClassifyRaised(e) == [raised |-> e, value |-> DefaultResult]

\* lines 88-108
classify_with_grok(r) ==
    \* requests.post is outside the try block
    IF r.kind = "exception" THEN ClassifyRaised("RequestException")
    ELSE IF r.status # 200 THEN ClassifyReturned(DefaultResult)
    ELSE IF r.kind = "bad_body" THEN
        IF r.body_error = "json.JSONDecodeError" THEN ClassifyReturned(DefaultResult)
        ELSE ClassifyRaised(r.body_error)
    ELSE IF r.kind = "no_choices" THEN ClassifyReturned(DefaultResult)
    \* data["choices"][0] on an empty list: IndexError is not caught
    ELSE IF r.kind = "empty_choices" THEN ClassifyRaised("IndexError")
    \* data["choices"][0]["text"]: KeyError is caught
    ELSE IF r.kind = "choice_without_text" THEN ClassifyReturned(DefaultResult)
    \* json.loads raises json.JSONDecodeError
    ELSE IF r.kind = "invalid_text" THEN ClassifyReturned(DefaultResult)
    ELSE ClassifyReturned(r.value)

\* lines 145-151: the caller's reads of the result; "" when none of them
\* raises
ReadResult(v) ==
    IF v.type # "dict" THEN "TypeError"
    ELSE IF "article_worthy" \notin v.keys THEN "KeyError"
    ELSE IF lower(v.article_worthy) # lower(TextYes) THEN ""
    ELSE IF {"title", "intent", "related_topics"} \subseteq v.keys THEN ""
    ELSE "KeyError"

\* lines 143-155: one turn of the loop, and what follows the last turn
ClassifyKeyword ==
    /\ kw_pc = "classify"
    /\ \E r \in ClassifyResponses :
        LET result == classify_with_grok(r)
            failure == IF result.raised # "" THEN result.raised
                       ELSE ReadResult(result.value)
        IN  /\ kw_result' = Some(result)
            /\ kw_raised' = failure
            /\ IF failure # "" THEN
                    /\ kw_pc' = "done"
                    /\ UNCHANGED <<kw_i, enriched, kw_shown>>
               ELSE /\ enriched' = IF lower(result.value.article_worthy) = lower(TextYes)
                                   THEN Append(enriched, candidates[kw_i])
                                   ELSE enriched
                    /\ IF kw_i = Len(candidates) THEN
                            /\ kw_pc' = "done" /\ kw_i' = 0
                            /\ kw_shown' = kw_shown \cup {"Download Suggestions"}
                       ELSE /\ kw_i' = kw_i + 1
                            /\ UNCHANGED <<kw_pc, kw_shown>>
    /\ UNCHANGED <<url_input, keywords_data, dfs_status, scraper_status, mb_keywords,
                   base_keywords, expansion_input, candidates>>
    /\ UNCHANGED kwOthers

\* the script run is over
KwRerun ==
    /\ kw_pc = "done"
    /\ kw_pc' = "idle"
    /\ url_input' = ""
    /\ keywords_data' = {}
    /\ dfs_status' = 0
    /\ scraper_status' = 0
    /\ mb_keywords' = << >>
    /\ base_keywords' = {}
    /\ expansion_input' = None
    /\ kw_shown' = {}
    /\ candidates' = << >>
    /\ kw_i' = 0
    /\ kw_result' = None
    /\ enriched' = << >>
    /\ kw_raised' = ""
    /\ UNCHANGED kwOthers

KwNext ==
    \/ DiscoverTopics \/ DataForSEORequest \/ ScraperRequest \/ ExpandKeywords
    \/ ClassifyKeyword \/ KwRerun

---------------------------------------------------------------------------
(* Claims on imageparser.py, speectottext.py, texttospeech.py, keywordfinder.py *)

VastuReturned == va_pc = "done" /\ ~IsNone(va_insights)

\* C5: get_vastu_insights requests grok-3, grok-beta, grok-2 in that order,
\* the next model only when the previous request was answered with 404; a
\* 401, 403 or 429 ends the call with its message and no further request, the
\* first successful response ends it with its content, and three 404 answers
\* end it with the 'All Grok models failed' message after three requests.
C5_NextModelOnlyAfter404 ==
    /\ Len(va_requests) <= Len(models_to_try)
    /\ \A i \in 1..Len(va_requests) : va_requests[i].model = models_to_try[i]
    /\ \A i \in 1..(Len(va_requests) - 1) :
        va_requests[i].outcome.kind = "status" /\ va_requests[i].outcome.status = 404
    /\ (VastuReturned /\ va_requests # << >>) =>
        LET last == va_requests[Len(va_requests)].outcome IN
        /\ (last.kind = "status" /\ last.status = 401) =>
                va_insights = Some("Error: Invalid API key.")
        /\ (last.kind = "status" /\ last.status = 403) =>
                va_insights = Some("Error: Access forbidden.")
        /\ (last.kind = "status" /\ last.status = 429) =>
                va_insights = Some("Error: Rate limit exceeded.")
        /\ last.kind = "ok" => va_insights = Some("content")
        /\ (last.kind = "status" /\ last.status = 404) =>
                /\ va_insights = Some("Error: All Grok models failed.")
                /\ Len(va_requests) = 3

\* C8: once the exit hook of the speech-to-text script has run, every
\* temporary audio file created in the session has been deleted.
C8_NoAudioFileLeftAfterExit ==
    stt_exited => stt_files = {}

\* C9: once the exit hook of the text-to-speech script has run, every
\* temporary audio file created by a speech generation has been deleted.
C9_NoSpeechFileLeftAfterExit ==
    tts_exited => tts_files = {}

\* C10: when DataForSEO answers 404 and the Scraper API fallback returns
\* keywords, these keywords are the base keywords passed to the expansion.
C10_ScrapedKeywordsAreExpanded ==
    (/\ kw_pc = "done"
     /\ dfs_status = 404
     /\ scraper_status = 200
     /\ mb_keywords # << >>)
    => expansion_input = Some({mb_keywords[i].keyword : i \in 1..Len(mb_keywords)})

---------------------------------------------------------------------------
\* C14: classify_with_grok returns, for every response of the completion
\* endpoint (non-200 status, body without 'choices', text that is not valid
\* JSON, text that is valid JSON), a record that has the four keys
\* article_worthy, title, intent and related_topics, so the caller's reads of
\* these keys never fail.
C14_ClassifyReturnsFourKeys ==
    ~IsNone(kw_result) =>
        /\ Val(kw_result).raised = ""
        /\ Val(kw_result).value.type = "dict"
        /\ ResultKeys \subseteq Val(kw_result).value.keys
        /\ kw_raised = ""

---------------------------------------------------------------------------
(* mbchat.py *)

\* lines 32-41: the columns of the property table the script filters on
PropertyData ==
    << [id |-> 1, city |-> <<"M","u","m","b","a","i">>,
        property_type |-> <<"A","p","a","r","t","m","e","n","t">>,
        bhk |-> <<"2"," ","B","H","K">>],
       [id |-> 2, city |-> <<"D","e","l","h","i">>,
        property_type |-> <<"V","i","l","l","a">>,
        bhk |-> <<"3"," ","B","H","K">>],
       [id |-> 3, city |-> <<"B","a","n","g","a","l","o","r","e">>,
        property_type |-> <<"A","p","a","r","t","m","e","n","t">>,
        bhk |-> <<"1"," ","B","H","K">>],
       [id |-> 4, city |-> <<"M","u","m","b","a","i">>,
        property_type |-> <<"P","l","o","t">>,
        bhk |-> <<"N","/","A">>],
       [id |-> 5, city |-> <<"D","e","l","h","i">>,
        property_type |-> <<"A","p","a","r","t","m","e","n","t">>,
        bhk |-> <<"2"," ","B","H","K">>] >>

\* What the user types into st.chat_input
Prompts == {"budget 1 Cr", "2 BHK in Mumbai", "1 bhk", "3 bhk apartment in delhi, park-facing"}

\* the characters of a prompt
PromptText(p) ==
    CASE p = "budget 1 Cr" ->
            <<"b","u","d","g","e","t"," ","1"," ","C","r">>
      [] p = "2 BHK in Mumbai" ->
            <<"2"," ","B","H","K"," ","i","n"," ","M","u","m","b","a","i">>
      [] p = "1 bhk" ->
            <<"1"," ","b","h","k">>
      [] p = "3 bhk apartment in delhi, park-facing" ->
            <<"3"," ","b","h","k"," ","a","p","a","r","t","m","e","n","t"," ","i","n"," ","d","e","l","h","i",","," ","p","a","r","k","-","f","a","c","i","n","g">>

\* the literals of lines 120-141, 124 (" BHK" ends the two sizes) and 127-131
Words ==
    [budget |-> <<"b","u","d","g","e","t">>,
     bhk |-> <<"b","h","k">>,
     two_bhk |-> <<"2"," ","b","h","k">>,
     three_bhk |-> <<"3"," ","b","h","k">>,
     mumbai |-> <<"M","u","m","b","a","i">>,
     delhi |-> <<"D","e","l","h","i">>,
     bangalore |-> <<"B","a","n","g","a","l","o","r","e">>,
     park_facing |-> <<"p","a","r","k","-","f","a","c","i","n","g">>,
     metro_nearby |-> <<"m","e","t","r","o"," ","n","e","a","r","b","y">>,
     apartment |-> <<"a","p","a","r","t","m","e","n","t">>,
     size_suffix |-> <<" ","B","H","K">>]

\* the texts of the messages the script appends (lines 82, 93, 98, 103, 148,
\* 153, 158); the last greeting is named without the two values it quotes
Msg ==
    [onboarding |->
        "Not sure where to begin? Let me guide your property search. What's your budget range?",
     long_absence |->
        "You haven't been here for a while. Want to update your preferences or continue with past ones?",
     welcome_back |->
        "Welcome back! Anything changed in your requirements since we last spoke?",
     last_time |->
        "Welcome back! Last time, you looked for {bhk} in {locality}. Continue from there?",
     few_matches |->
        "Only a few matches found. Want to expand your search radius or increase budget?",
     many_matches |->
        "That's a lot of options! Want help narrowing it down to the top 5?",
     no_matches |->
        "No properties found. Try relaxing some filters or exploring nearby localities."]

Assistant(text) == [role |-> "assistant", content |-> text]
User(text) == [role |-> "user", content |-> text]

\* lines 16-25
NewProfile ==
    [budget |-> None, locality |-> None, bhk |-> None, purpose |-> None,
     soft_prefs |-> << >>, last_interaction |-> None, shortlisted |-> << >>,
     dislikes |-> << >>]

\* lines 13-27: the session state a new session's first script run starts with
McInit ==
    /\ messages = << >>
    /\ user_profile = NewProfile
    /\ first_time = TRUE
    /\ prompt = None
    /\ now = 0
    /\ mc_runs = 0
    /\ mc_options = << >>
    /\ mc_selected = << >>
    /\ mc_raised = ""

\* lines 77-83, the flag: first_time after the block
OnboardingFlag_kept(ft) == ft
OnboardingFlag(ft) == IF ft THEN FALSE ELSE ft

\* lines 77-83, the history after the block
Onboarding(ft, msgs) ==
    IF ft THEN Append(msgs, Assistant(Msg.onboarding)) ELSE msgs

\* line 88: timedelta.days of the time since the last interaction; the clock
\* counts days, and strptime gives back what strftime was given
days_inactive(profile, t) == t - Val(profile.last_interaction)

\* lines 86-104: the history after the block
ReturningUser(profile, t, msgs) ==
    IF IsNone(profile.last_interaction) THEN msgs
    ELSE IF days_inactive(profile, t) > 30 THEN Append(msgs, Assistant(Msg.long_absence))
    ELSE IF days_inactive(profile, t) > 7 THEN Append(msgs, Assistant(Msg.welcome_back))
    ELSE Append(msgs, Assistant(Msg.last_time))

\* line 119, for every prompt
prompt_lower == [p \in Prompts |-> lower(PromptText(p))]

\* the tests of lines 120-132 and 141, for every prompt
Mentions ==
    [p \in Prompts |->
        [budget |-> contains(prompt_lower[p], Words.budget),
         bhk |-> contains(prompt_lower[p], Words.bhk),
         two_bhk |-> contains(prompt_lower[p], Words.two_bhk),
         three_bhk |-> contains(prompt_lower[p], Words.three_bhk),
         mumbai |-> contains(prompt_lower[p], lower(Words.mumbai)),
         delhi |-> contains(prompt_lower[p], lower(Words.delhi)),
         bangalore |-> contains(prompt_lower[p], lower(Words.bangalore)),
         soft_prefs |-> \/ contains(prompt_lower[p], Words.park_facing)
                        \/ contains(prompt_lower[p], Words.metro_nearby),
         apartment |-> contains(prompt_lower[p], Words.apartment)]]

\* line 121: prompt.split("budget")[-1].strip(), for every prompt
BudgetText ==
    [p \in Prompts |->
        LET pieces == split(PromptText(p), Words.budget) IN strip(pieces[Len(pieces)])]

\* lines 119-133: the profile after the updates from the prompt
UpdateProfile(profile, p) ==
    LET p1 == [profile EXCEPT !.budget =
                    IF Mentions[p].budget THEN Some(BudgetText[p]) ELSE @]
        p2 == [p1 EXCEPT !.bhk =
                    IF ~Mentions[p].bhk THEN @
                    ELSE IF Mentions[p].two_bhk THEN Some(<<"2">> \o Words.size_suffix)
                    ELSE IF Mentions[p].three_bhk THEN Some(<<"3">> \o Words.size_suffix)
                    ELSE None]
        p3 == [p2 EXCEPT !.locality = IF Mentions[p].mumbai THEN Some(Words.mumbai) ELSE @]
        p4 == [p3 EXCEPT !.locality = IF Mentions[p].delhi THEN Some(Words.delhi) ELSE @]
        p5 == [p4 EXCEPT !.locality =
                    IF Mentions[p].bangalore THEN Some(Words.bangalore) ELSE @]
    IN  [p5 EXCEPT !.soft_prefs =
            IF Mentions[p].soft_prefs THEN Append(@, prompt_lower[p]) ELSE @]

\* the truth value of an optional text
Truthy(o) == ~IsNone(o) /\ Val(o) # << >>

\* lines 138, 140, 142: the columns after .str.lower()
DataLower ==
    [i \in 1..Len(PropertyData) |->
        [id |-> PropertyData[i].id, city |-> lower(PropertyData[i].city),
         property_type |-> lower(PropertyData[i].property_type),
         bhk |-> lower(PropertyData[i].bhk)]]

\* lines 136-142: filtered_df, for the profile after its update
FilterData(profile, p) ==
    LET locality == lower(Val(profile.locality))
        bhk == lower(Val(profile.bhk))
        kept == SelectSeq(DataLower, LAMBDA row :
                    /\ Truthy(profile.locality) => row.city = locality
                    /\ Truthy(profile.bhk) => row.bhk = bhk
                    /\ Mentions[p].apartment => row.property_type = Words.apartment)
    IN  [i \in 1..Len(kept) |-> PropertyData[kept[i].id]]

\* lines 145-159 with every test an if of its own, the first without its
\* lower limit
Nudge_no_elif(n) ==
    (IF n < 5 THEN << Assistant(Msg.few_matches) >> ELSE << >>)
    \o (IF n > 30 THEN << Assistant(Msg.many_matches) >> ELSE << >>)
    \o (IF n = 0 THEN << Assistant(Msg.no_matches) >> ELSE << >>)
\* lines 145-159: the messages appended for len(filtered_df) = n
Nudge(n) ==
    IF n < 5 /\ n > 0 THEN << Assistant(Msg.few_matches) >>
    ELSE IF n > 30 THEN << Assistant(Msg.many_matches) >>
    ELSE IF n = 0 THEN << Assistant(Msg.no_matches) >>
    ELSE << >>

\* lines 45-55: the completion request answers or raises.  The secret
\* GROQ_API_KEY is taken to be configured, so that line 46 does not raise.
GrokOutcomes == {"content", "raise"}
query_grok(o) ==
    IF o = "raise" THEN "Error querying Grok API" ELSE "Here are some properties"

\* A script run without chat input: the page load that opens the session, or
\* the rerun after a widget was touched (one widget event per run).  It ends
\* at line 184, where filtered_df is not defined.
ScriptRerun ==
    /\ mc_runs < MaxRuns
    /\ first_time' = OnboardingFlag(first_time)
    /\ messages' = ReturningUser(user_profile, now, Onboarding(first_time, messages))
    /\ prompt' = None
    /\ mc_raised' = "NameError"
    /\ mc_runs' = mc_runs + 1
    \* the widget touched may be the shortlist multiselect; whether its value
    \* outlives a run that ended in an exception is left open
    /\ \E kept \in BOOLEAN, sel \in {mc_selected, mc_options} :
        IF kept THEN mc_selected' = sel /\ UNCHANGED mc_options
        ELSE mc_selected' = << >> /\ mc_options' = << >>
    /\ UNCHANGED <<user_profile, now>>
    /\ UNCHANGED mcOthers

\* lines 77-220 of a script run in which st.chat_input returned a prompt
SubmitChat ==
    /\ mc_runs >= 1
    /\ mc_runs < MaxRuns
    /\ \E p \in Prompts, o \in GrokOutcomes :
        LET greeted == ReturningUser(user_profile, now, Onboarding(first_time, messages))
            updated == UpdateProfile(user_profile, p)
            filtered_df == FilterData(updated, p)
            response == query_grok(o)
            \* lines 184-192: the multiselect gives its stored value when it
            \* was shown with the same options before; the two buttons
            \* (lines 193, 209) are not what started this run
            options == [i \in 1..Len(filtered_df) |-> filtered_df[i].id]
            selected_properties == IF options = mc_options THEN mc_selected ELSE << >>
        IN  /\ messages' = Append(greeted, User(p)) \o Nudge(Len(filtered_df))
                                \o << Assistant(response) >>
            /\ user_profile' = [updated EXCEPT !.last_interaction = Some(now),
                                               !.shortlisted = @ \o selected_properties]
            /\ mc_options' = options
            /\ mc_selected' = selected_properties
            /\ prompt' = Some(p)
    /\ first_time' = OnboardingFlag(first_time)
    /\ mc_raised' = ""
    /\ mc_runs' = mc_runs + 1
    /\ UNCHANGED now
    /\ UNCHANGED mcOthers

\* time passes between two script runs
Tick ==
    /\ \E d \in {16, 31} :
        /\ now + d <= MaxDays
        /\ now' = now + d
    /\ UNCHANGED <<messages, user_profile, first_time, prompt, mc_runs, mc_options,
                   mc_selected, mc_raised>>
    /\ UNCHANGED mcOthers

McNext == ScriptRerun \/ SubmitChat \/ Tick

---------------------------------------------------------------------------
(* Claims on mbchat.py *)

\* the positions of the history that hold the assistant message text
PositionsOf(text) == {i \in 1..Len(messages) : messages[i] = Assistant(text)}

\* C15: in a chatbot session the onboarding message is appended to the chat
\* history exactly once, on the first script run of the session; first_time
\* is false after that run and never becomes true again.
C15_OnboardingOnce ==
    /\ mc_runs = 0 => first_time /\ messages = << >>
    /\ mc_runs >= 1 => ~first_time /\ PositionsOf(Msg.onboarding) = {1}

\* three runs and a chat message later the history still starts with the
\* only onboarding message
C15_Witness ==
    /\ mc_runs >= 3
    /\ ~IsNone(prompt)
    /\ Len(messages) >= 4
    /\ PositionsOf(Msg.onboarding) = {1}
    /\ ~first_time

\* the welcome-back greetings of lines 91-104
Greetings == {Assistant(Msg.long_absence), Assistant(Msg.welcome_back), Assistant(Msg.last_time)}

\* positions a < b of the history hold two consecutive user messages
ConsecutiveUserMessages(a, b) ==
    /\ a < b
    /\ messages[a].role = "user" /\ messages[b].role = "user"
    /\ \A k \in (a + 1)..(b - 1) : messages[k].role # "user"

\* C16: between two consecutive user chat messages at most one welcome-back
\* greeting is appended to the chat history, regardless of how many script
\* reruns (widget interactions) happen in between.
C16_OneGreetingBetweenMessages ==
    \A a, b \in 1..Len(messages) :
        ConsecutiveUserMessages(a, b) =>
            Cardinality({k \in (a + 1)..(b - 1) : messages[k] \in Greetings}) <= 1

MentionedBhk(text) ==
    LET i == find(text, <<" ">> \o Words.bhk)
    IN  IF i > 1 THEN Some(<<text[i - 1]>> \o Words.size_suffix) ELSE None

\* a chat message with the characters text took the profile from old to new
ProfileFollowsMessage(text, old, new) ==
    /\ contains(lower(text), Words.bhk) => new.bhk = MentionedBhk(lower(text))
    /\ ~contains(lower(text), Words.bhk) => new.bhk = old.bhk
    /\ ~IsNone(old.bhk) => ~IsNone(new.bhk)
    /\ new.locality # old.locality =>
            ~IsNone(new.locality) /\ contains(lower(text), lower(Val(new.locality)))
    /\ new.budget # old.budget => ~IsNone(new.budget) /\ contains(text, Val(new.budget))
    /\ new.purpose = old.purpose

\* C18: a chat message changes a profile field only to a value it names: a
\* message containing 'bhk' sets the BHK preference to the BHK size it
\* mentions, and a BHK preference already stored in the profile is never
\* replaced by None.
C18_ProfileChangesOnlyToNamedValues ==
    [][ (mc_runs' = mc_runs + 1 /\ ~IsNone(prompt')) =>
            ProfileFollowsMessage(PromptText(Val(prompt')), user_profile, user_profile')
      ]_vars

---------------------------------------------------------------------------
Init == DrInit /\ VpInit /\ VaInit /\ SttInit /\ TtsInit /\ KwInit /\ McInit

SpecResearch == Init /\ [][DrNext]_vars

SpecVideo == Init /\ [][VpNext]_vars

SpecVastu == Init /\ [][VaNext]_vars

SpecSpeechToText == Init /\ [][SttNext]_vars

SpecTextToSpeech == Init /\ [][TtsNext]_vars

SpecKeywords == Init /\ [][KwNext]_vars

SpecChat == Init /\ [][McNext]_vars

===========================================================================
